---- MODULE Spec2Model ----
(***************************************************************************)
(* roproxy-lite (src/main.go): a single-hop reverse proxy.  One behaviour  *)
(* of this module is one proxy cycle: requestHandler authenticates the     *)
(* inbound request, checks the URL format, runs the recursive makeRequest  *)
(* retry loop against the upstream and relays the final response; the      *)
(* wrapper h then decides on the access-log entry.  SpecPair runs two such *)
(* cycles interleaved, as fasthttp does with one goroutine per request.    *)
(*                                                                         *)
(* Strings the code inspects byte by byte (the request URI, header names,  *)
(* the Retry-After value) are sequences of one-character strings; strings  *)
(* the code only copies or compares whole (header values of the inbound    *)
(* request, bodies, methods, the KEY secret) are TLA+ strings.             *)
(***************************************************************************)
EXTENDS Integers, Sequences, FiniteSets, TLC

VARIABLES
    retries,      \* var retries = getEnvInt("RETRIES", 5)
    logSlowMs,    \* var logSlowMs = getEnvInt("LOG_SLOW_MS", 300)
    logErrorsOnly, \* var logErrorsOnly = os.Getenv("LOG_ERRORS_ONLY") == "true"
    keyOk,        \* os.LookupEnv("KEY"): is the variable present
    keyVal,       \* os.LookupEnv("KEY"): its value ("" when absent)
    reqMethod,    \* ctx.Method()
    reqUri,       \* ctx.RequestURI(), as received (leading slash included)
    reqHeaders,   \* ctx.Request.Header: sequence of <<name, value>>
    reqBody,      \* ctx.Request.Body()
    world,        \* which upstream the request is sent to (see Outcomes)
    parked,       \* the request of another goroutine, not running now
    upstream,     \* outcome of the k-th client.Do, known one call ahead
    pc,           \* position of the request: handler, makeRequest,
                  \* clientDo (blocked in client.Do), sleep (blocked in
                  \* time.Sleep), relay, done (requestHandler returned),
                  \* logged (h returned)
    attempt,      \* the attempt argument of the pending makeRequest call
    calls,        \* number of client.Do calls made so far
    sent,         \* the upstream requests dispatched, in order
    sleeps,       \* the time.Sleep calls made, in order: milliseconds slept
    logs,         \* the jlog retry events, in order
    response,     \* the value makeRequest returned to requestHandler
    ctxStatus,    \* ctx.Response status code (0: not set by the handler)
    ctxHeaders,   \* ctx.Response.Header entries set by the handler
    ctxBody,      \* ctx.Response body
    pool,         \* pooled objects acquired and released during the cycle
    durMs,        \* time.Since(start).Milliseconds(), once h has measured it
    accessLog     \* the jlog request_end events, in order

vars == <<retries, logSlowMs, logErrorsOnly, keyOk, keyVal, reqMethod,
          reqUri, reqHeaders, reqBody, world, parked, upstream, pc, attempt,
          calls, sent, sleeps, logs, response, ctxStatus, ctxHeaders, ctxBody,
          pool, durMs, accessLog>>

\* the process configuration, read at start-up and by os.LookupEnv
configVars == <<retries, logSlowMs, logErrorsOnly, keyOk, keyVal>>

\* what requestHandler and makeRequest never write: the configuration, the
\* inbound request, the upstream it talks to and the other goroutine
inputVars == <<configVars, reqMethod, reqUri, reqHeaders, reqBody, world,
               parked>>

\* what only the wrapper h writes
logVars == <<durMs, accessLog>>

----------------------------------------------------------------------------
(* Bounds of the model. *)

MaxRetries == 3

MaxUriLen == 4

MaxHeaders == 2

\* no behaviour is followed past this many client.Do calls
MaxCalls == MaxRetries + 1

----------------------------------------------------------------------------
(* Characters and strings. *)

UpperChars == <<"A","B","C","D","E","F","G","H","I","J","K","L","M",
                "N","O","P","Q","R","S","T","U","V","W","X","Y","Z">>

LowerChars == <<"a","b","c","d","e","f","g","h","i","j","k","l","m",
                "n","o","p","q","r","s","t","u","v","w","x","y","z">>

ToLowerChar(c) ==
    IF \E i \in 1..26 : UpperChars[i] = c
    THEN LowerChars[CHOOSE i \in 1..26 : UpperChars[i] = c]
    ELSE c

ToUpperChar(c) ==
    IF \E i \in 1..26 : LowerChars[i] = c
    THEN UpperChars[CHOOSE i \in 1..26 : LowerChars[i] = c]
    ELSE c

\* strings.ToLower
ToLower(s) == [i \in 1..Len(s) |-> ToLowerChar(s[i])]

\* fasthttp's header-key normalisation, applied by the server's parser and by
\* Set, SetBytesKV, Del and Peek: first letter and every letter after "-" in
\* upper case, every other letter in lower case.
NormalizeHeaderKey(s) ==
    [i \in 1..Len(s) |->
        IF i = 1 \/ s[i-1] = "-" THEN ToUpperChar(s[i]) ELSE ToLowerChar(s[i])]

\* strings.SplitN(s, "/", 2)
SplitN2(s) ==
    IF \E i \in 1..Len(s) : s[i] = "/"
    THEN LET i == CHOOSE j \in 1..Len(s) :
                      s[j] = "/" /\ \A k \in 1..(j-1) : s[k] # "/"
         IN  <<SubSeq(s, 1, i-1), SubSeq(s, i+1, Len(s))>>
    ELSE <<s>>

Digits == <<"0","1","2","3","4","5","6","7","8","9">>

IsDigit(c) == \E d \in 1..10 : Digits[d] = c

DigitVal(c) == (CHOOSE d \in 1..10 : Digits[d] = c) - 1

RECURSIVE DecVal(_)
DecVal(s) ==
    IF s = <<>> THEN 0
    ELSE 10 * DecVal(SubSeq(s, 1, Len(s)-1)) + DigitVal(s[Len(s)])

\* Integers of the width of Go's int (64 bits) are kept as their decimal
\* writing, a sequence of digit characters with "-" in front of a negative
\* one, as strconv.Itoa would print them.

MaxInt64 == <<"9","2","2","3","3","7","2","0","3","6","8","5","4","7","7",
              "5","8","0","7">>

TwoTo63 == <<"9","2","2","3","3","7","2","0","3","6","8","5","4","7","7",
             "5","8","0","8">>

TwoTo64 == <<"1","8","4","4","6","7","4","4","0","7","3","7","0","9","5",
             "5","1","6","1","6">>

\* F(e), with e evaluated once, however often F uses its argument
With(e, F(_)) == CHOOSE y \in {F(x) : x \in {e}} : TRUE

\* a digit string without its leading zeros; "0" for zero
DecNorm(a) ==
    IF \A i \in 1..Len(a) : a[i] = "0" THEN <<"0">>
    ELSE SubSeq(a, CHOOSE i \in 1..Len(a) :
                       a[i] # "0" /\ \A j \in 1..(i-1) : a[j] = "0",
                Len(a))

\* a < b, for two digit strings without leading zeros
DecLess(a, b) ==
    \/ Len(a) < Len(b)
    \/ /\ Len(a) = Len(b)
       /\ \E i \in 1..Len(a) :
             /\ DigitVal(a[i]) < DigitVal(b[i])
             /\ \A j \in 1..(i-1) : a[j] = b[j]

\* digit i of a written with n digits, zeros in front
DigitAt(a, n, i) ==
    IF i <= n - Len(a) THEN 0 ELSE DigitVal(a[i - (n - Len(a))])

\* a + b: a carry enters position i when a position to its right
\* overflows and every position in between sums to 9
DecAddSums(n, sum) ==
    LET carry(i) == IF \E j \in (i+1)..n :
                           sum[j] >= 10 /\ \A l \in (i+1)..(j-1) : sum[l] = 9
                    THEN 1 ELSE 0
    IN  With([i \in 1..n |-> Digits[((sum[i] + carry(i)) % 10) + 1]],
             DecNorm)

DecAdd(a, b) ==
    LET n == (IF Len(a) > Len(b) THEN Len(a) ELSE Len(b)) + 1
    IN  With([i \in 1..n |-> DigitAt(a, n, i) + DigitAt(b, n, i)],
             LAMBDA sum : DecAddSums(n, sum))

\* a - b, for a >= b: position i lends when a position to its right is
\* short and every position in between is level
DecSubDifs(n, dif) ==
    LET borrow(i) == IF \E j \in (i+1)..n :
                            dif[j] < 0 /\ \A l \in (i+1)..(j-1) : dif[l] = 0
                     THEN 1 ELSE 0
    IN  With([i \in 1..n |-> Digits[((dif[i] - borrow(i) + 10) % 10) + 1]],
             DecNorm)

DecSub(a, b) ==
    LET n == Len(a)
    IN  With([i \in 1..n |-> DigitAt(a, n, i) - DigitAt(b, n, i)],
             LAMBDA dif : DecSubDifs(n, dif))

\* a modulo m * 10^k, for a < m * 10^(k+1)
RECURSIVE DecReduce(_, _)
DecReduce(a, mk) ==
    IF DecLess(a, mk) THEN a
    ELSE With(DecSub(a, mk), LAMBDA d : DecReduce(d, mk))

\* a modulo m by long division: with a < m * 10^(k+1), take from a the
\* multiples of m * 10^k, then those of m * 10^(k-1), and so on
RECURSIVE DecModFrom(_, _, _)
DecModFrom(a, m, k) ==
    IF k < 0 THEN a
    ELSE With(DecReduce(a, m \o [i \in 1..k |-> "0"]),
              LAMBDA d : DecModFrom(d, m, k - 1))

DecMod(a, m) ==
    IF DecLess(a, m) THEN a ELSE DecModFrom(a, m, Len(a) - Len(m))

\* the int64 nearest to the number of sign neg and magnitude mag
Int64(neg, mag) ==
    IF mag = <<"0">> THEN <<"0">>
    ELSE IF neg
    THEN IF DecLess(TwoTo63, mag) THEN <<"-">> \o TwoTo63
         ELSE <<"-">> \o mag
    ELSE IF DecLess(MaxInt64, mag) THEN MaxInt64
    ELSE mag

\* the longest run of decimal digits at the front of s
LeadingDigits(s) ==
    IF \A i \in 1..Len(s) : IsDigit(s[i]) THEN s
    ELSE SubSeq(s, 1, (CHOOSE i \in 1..Len(s) :
                           ~IsDigit(s[i]) /\ \A j \in 1..(i-1) : IsDigit(s[j]))
                      - 1)

\* strconv.Atoi with the error discarded (s, _ := strconv.Atoi(...)): an
\* optional sign, then the digits, read from the left. The scan stops with
\* a range error as soon as the digits read no longer fit in a uint64, the
\* bytes after them unseen, and with a syntax error at a byte that is not a
\* digit. Atoi returns 0 with a syntax error, and with a range error the
\* nearest int: also when the digits fit in a uint64 and not in an int64.
Atoi(s) ==
    LET signed == Len(s) > 0 /\ s[1] \in {"+", "-"}
        neg    == signed /\ s[1] = "-"
        digs   == IF signed THEN Tail(s) ELSE s
    IN  With(LeadingDigits(digs),
             LAMBDA lead :
                IF lead = <<>> THEN <<"0">>
                ELSE With(DecNorm(lead),
                          LAMBDA mag :
                             IF Len(lead) < Len(digs) /\ DecLess(mag, TwoTo64)
                             THEN <<"0">>
                             ELSE Int64(neg, mag)))

\* n > 0, for an int as Atoi returns it
IsPositive(n) == n[1] # "-" /\ n # <<"0">>

----------------------------------------------------------------------------
(* Header names, as character sequences. *)

hHost == <<"h","o","s","t">>

hConnection == <<"c","o","n","n","e","c","t","i","o","n">>

hProxyConnection ==
    <<"p","r","o","x","y","-","c","o","n","n","e","c","t","i","o","n">>

hKeepAlive == <<"k","e","e","p","-","a","l","i","v","e">>

hTransferEncoding ==
    <<"t","r","a","n","s","f","e","r","-","e","n","c","o","d","i","n","g">>

hUpgrade == <<"u","p","g","r","a","d","e">>

hTe == <<"t","e">>

hContentLength ==
    <<"c","o","n","t","e","n","t","-","l","e","n","g","t","h">>

hAcceptEncoding ==
    <<"a","c","c","e","p","t","-","e","n","c","o","d","i","n","g">>

hProxykey == <<"p","r","o","x","y","k","e","y">>

hXRequestId == <<"x","-","r","e","q","u","e","s","t","-","i","d">>

\* the case list of the switch in makeRequest
DropList ==
    {hHost, hConnection, hProxyConnection, hKeepAlive, hTransferEncoding,
     hUpgrade, hTe, hContentLength, hAcceptEncoding, hProxykey, hXRequestId}

kPROXYKEY == <<"P","R","O","X","Y","K","E","Y">>

kUserAgent == <<"U","s","e","r","-","A","g","e","n","t">>

kRobloxId == <<"R","o","b","l","o","x","-","I","d">>

kRetryAfter == <<"R","e","t","r","y","-","A","f","t","e","r">>

kUpstreamStatus ==
    <<"X","-","P","r","o","x","y","-","U","p","s","t","r","e","a","m","-",
      "S","t","a","t","u","s">>

kVia == <<"V","i","a">>

----------------------------------------------------------------------------
(* fasthttp header objects: an ordered list of <<name, value>> entries. *)

\* Header.Peek: the value of the first entry under the normalised key, the
\* empty value when there is none.
Peek(h, key, empty) ==
    LET k == NormalizeHeaderKey(key) IN
    IF \E i \in 1..Len(h) : h[i][1] = k
    THEN h[CHOOSE i \in 1..Len(h) :
               h[i][1] = k /\ \A j \in 1..(i-1) : h[j][1] # k][2]
    ELSE empty

\* Header.Set / SetBytesKV: the value of the first entry under the normalised
\* key is replaced; a new entry is appended when there is none.
SetHeader(h, key, value) ==
    LET k == NormalizeHeaderKey(key) IN
    IF \E i \in 1..Len(h) : h[i][1] = k
    THEN LET i == CHOOSE j \in 1..Len(h) :
                      h[j][1] = k /\ \A m \in 1..(j-1) : h[m][1] # k
         IN  [h EXCEPT ![i] = <<k, value>>]
    ELSE Append(h, <<k, value>>)

\* Header.Del: every entry under the normalised key is removed.
DelHeader(h, key) ==
    LET k == NormalizeHeaderKey(key)
        Keep(e) == e[1] # k
    IN  SelectSeq(h, Keep)

\* names the request parser keeps in a field of their own, one value each
SingleValued == {NormalizeHeaderKey(hHost), kUserAgent}

\* the server's request parser followed by RequestHeader.VisitAll: names are
\* normalised on arrival; Host and User-Agent keep the last value received
\* and are visited first, in that order; every other line is an entry of its
\* own, visited in arrival order.
ParseHeaders(wire) ==
    LET norm == [i \in 1..Len(wire) |->
                    <<NormalizeHeaderKey(wire[i][1]), wire[i][2]>>]
        Last(k) ==
            IF \E i \in 1..Len(norm) : norm[i][1] = k
            THEN <<norm[CHOOSE i \in 1..Len(norm) :
                        norm[i][1] = k
                        /\ \A j \in (i+1)..Len(norm) : norm[j][1] # k]>>
            ELSE <<>>
        Ordinary(e) == e[1] \notin SingleValued
    IN  Last(NormalizeHeaderKey(hHost)) \o Last(kUserAgent)
        \o SelectSeq(norm, Ordinary)

----------------------------------------------------------------------------
(* makeRequest: the outbound request. *)

\* the switch of the VisitAll callback: is the header left out
Dropped(k) == ToLower(k) \in DropList

\* ctx.Request.Header.VisitAll(...): the inbound headers that are not dropped
\* are set on the outbound header, one after the other
RECURSIVE CopyHeaders(_, _)
CopyHeaders(h, in) ==
    IF in = <<>> THEN h
    ELSE CopyHeaders(IF Dropped(Head(in)[1]) THEN h
                     ELSE SetHeader(h, Head(in)[1], Head(in)[2]),
                     Tail(in))

\* a target built with the wrong scheme
UpstreamURIPlainHttp(upHost, upPath) ==
    <<"h","t","t","p",":","/","/">> \o upHost \o <<"/">> \o upPath

\* line 133: "https://" + upHost + "/" + upPath
UpstreamURI(upHost, upPath) ==
    <<"h","t","t","p","s",":","/","/">> \o upHost \o <<"/">> \o upPath

\* lines 129-148, in the order of the code
BuildRequest(upHost, upPath) ==
    LET h1 == SetHeader(<<>>, kUserAgent, "RoProxy")
        h2 == DelHeader(h1, kRobloxId)
    IN  [method  |-> reqMethod,
         uri     |-> UpstreamURI(upHost, upPath),
         host    |-> upHost,
         body    |-> reqBody,
         headers |-> CopyHeaders(h2, reqHeaders)]

----------------------------------------------------------------------------
(* Responses. *)

Resp(sc, h, b) == [status |-> sc, headers |-> h, body |-> b]

NoResponse == Resp(0, <<>>, "")

\* the failure response of the superseded revision of makeRequest
OldTimeoutResponse ==
    Resp(500, <<>>, "Proxy failed to connect. Please try again.")

\* the response makeRequest fabricates when attempt > retries
TimeoutResponse == Resp(504, <<>>, "upstream timeout")

\* the response makeRequest fabricates for a URI without a second part
FormatResponse == Resp(400, <<>>, "URL format invalid.")

\* outcome of one client.Do: a transport error, or a response
TransportError == [err |-> TRUE, resp |-> NoResponse]

Received(r) == [err |-> FALSE, resp |-> r]

RECURSIVE NatDigits(_)
NatDigits(n) ==
    IF n < 10 THEN <<Digits[n + 1]>>
    ELSE Append(NatDigits(n \div 10), Digits[(n % 10) + 1])

\* strconv.Itoa
Itoa(n) == IF n < 0 THEN <<"-">> \o NatDigits(0 - n) ELSE NatDigits(n)

----------------------------------------------------------------------------
(* Upstream behaviours. *)

Up(sc) == Received(Resp(sc, <<>>, "up"))

UpRetryAfter(sc, ra) == Received(Resp(sc, <<<<kRetryAfter, ra>>>>, "up"))

\* Retry-After values: small ones, malformed ones, and the first whose
\* duration in nanoseconds does not fit in an int64
RetryAfterValues ==
    {<<"2">>, <<"0">>, <<"+","1">>, <<"-","2">>, <<"a">>, <<"1","2">>,
     <<"9","2","2","3","3","7","2","0","3","7">>}

\* upstream behaviours: transport errors, successes, client errors, server
\* errors, and 429 with and without Retry-After
FullWorld ==
    {TransportError, Up(200), Up(404), Up(499), Up(500), Up(503), Up(599),
     Up(429)}
    \cup {UpRetryAfter(429, ra) : ra \in RetryAfterValues}

SmallWorld ==
    {TransportError, Up(200), Up(503), UpRetryAfter(429, <<"2">>)}

kA == <<"A">>

kB == <<"B">>

UpHeaders(sc, h) == Received(Resp(sc, h, "up"))

\* upstream behaviours that differ in the response headers: none, two
\* names, two values under one name, and the names the proxy adds itself
RelayWorld ==
    {TransportError, Up(200), Up(503),
     UpHeaders(200, <<<<kA, <<"1">>>>, <<kB, <<"2">>>>>>),
     UpHeaders(200, <<<<kA, <<"1">>>>, <<kA, <<"2">>>>>>),
     UpHeaders(200, <<<<kVia, <<"u","p">>>>>>),
     UpHeaders(404, <<<<kUpstreamStatus, <<"2","0","0">>>>>>),
     UpHeaders(429, <<<<kRetryAfter, <<"2">>>>, <<kA, <<"1">>>>>>)}

\* the outcomes a client.Do against the upstream can have
Outcomes(w) ==
    CASE w = "full"  -> FullWorld
      [] w = "relay" -> RelayWorld
      [] OTHER       -> SmallWorld

----------------------------------------------------------------------------
(* makeRequest: the retry policy. *)

\* an exhaustion test that is off by one
ExhaustedOneEarly(a) == a >= retries

\* an exhaustion test that allows a first try before counting retries
ExhaustedOneLate(a) == a > retries + 1

\* line 112: if attempt > retries
Exhausted(a) == a > retries

\* a backoff that doubles with every attempt
BackoffDoubling(a) == 100 * 2 ^ (a - 1)

BackoffUnitMs == 100

\* lines 154 and 169: time.Duration(100*attempt) * time.Millisecond
Backoff(a) == BackoffUnitMs * a

RateLimited == 429

\* line 159: sc == 429
IsRateLimited(sc) == sc = RateLimited

\* a retry test that takes every 4xx status for a server error as well
IsServerErrorFrom400(sc) == sc >= 400 /\ sc <= 599

\* line 167: sc >= 500 && sc <= 599
IsServerError(sc) == sc >= 500 /\ sc <= 599

NanosPerSecond == <<"0","0","0","0","0","0","0","0","0">>

GraceNs == <<"1","0","0","0","0","0","0","0","0">>

\* time.Duration(s)*time.Second + 100*time.Millisecond for an int s > 0, as
\* time.Sleep takes it: an int64 count of nanoseconds, so the sum is taken
\* modulo 2^64 and a result from 2^63 on is a negative duration.  The value
\* is the time slept in milliseconds; time.Sleep returns at once when the
\* duration is negative or zero.
MsSlept(ns) ==
    IF ~DecLess(ns, TwoTo63) \/ Len(ns) <= 6 THEN 0
    ELSE DecVal(SubSeq(ns, 1, Len(ns) - 6))

SleepMs(s) ==
    With(DecAdd(s \o NanosPerSecond, GraceNs),
         LAMBDA sum : With(DecMod(sum, TwoTo64), MsSlept))

\* lines 160-164: the sleeps made before a 429 response is returned
RetryAfterSleeps(r) ==
    With(Peek(r.headers, kRetryAfter, <<>>),
         LAMBDA ra :
            IF Len(ra) > 0
            THEN With(Atoi(ra),
                      LAMBDA s : IF IsPositive(s) THEN <<SleepMs(s)>>
                                 ELSE <<>>)
            ELSE <<>>)

----------------------------------------------------------------------------
(* requestHandler. *)

\* line 85: ok && string(ctx.Request.Header.Peek("PROXYKEY")) != val
AuthFails == keyOk /\ Peek(reqHeaders, kPROXYKEY, "") # keyVal

\* a format test that forgets to strip the leading slash
FormatFailsUnstripped == Len(SplitN2(reqUri)) < 2

\* line 91: len(strings.SplitN(uri[1:], "/", 2)) < 2
FormatFails == Len(SplitN2(Tail(reqUri))) < 2

\* lines 85-89
AuthReject ==
    /\ pc = "handler"
    /\ AuthFails
    /\ ctxStatus' = 407
    /\ ctxBody' = "Missing or invalid PROXYKEY header."
    /\ pc' = "done"
    /\ UNCHANGED <<inputVars, logVars, upstream, attempt, calls, sent,
                   sleeps, logs, response, ctxHeaders, pool>>

\* lines 91-95
FormatReject ==
    /\ pc = "handler"
    /\ ~AuthFails
    /\ FormatFails
    /\ ctxStatus' = 400
    /\ ctxBody' = "URL format invalid."
    /\ pc' = "done"
    /\ UNCHANGED <<inputVars, logVars, upstream, attempt, calls, sent,
                   sleeps, logs, response, ctxHeaders, pool>>

\* line 97: response := makeRequest(ctx, 1)
CallMakeRequest ==
    /\ pc = "handler"
    /\ ~AuthFails
    /\ ~FormatFails
    /\ attempt' = 1
    /\ pc' = "makeRequest"
    /\ UNCHANGED <<inputVars, logVars, upstream, calls, sent, sleeps, logs,
                   response, ctxStatus, ctxHeaders, ctxBody, pool>>

\* fasthttp.AcquireRequest
AcquireRequest(p) == [p EXCEPT !.reqAcquired = @ + 1]

\* fasthttp.AcquireResponse
AcquireResponse(p) == [p EXCEPT !.respAcquired = @ + 1]

\* fasthttp.ReleaseResponse
ReleaseResponse(p) == [p EXCEPT !.respReleased = @ + 1]

\* line 130, defer fasthttp.ReleaseRequest(req): when the innermost
\* activation returns, the n activations that acquired a request return one
\* after the other and each releases its own
RunDeferred(p, n) == [p EXCEPT !.reqReleased = @ + n]

\* makeRequest returns r to requestHandler
Return(r) ==
    /\ response' = r
    /\ pc' = "relay"
    /\ UNCHANGED attempt

\* a recursive call that does not count the attempt
RecurseSameAttempt ==
    /\ pc' = "makeRequest"
    /\ UNCHANGED <<attempt, response>>

\* a recursive call that skips an attempt number
RecurseSkipping ==
    /\ attempt' = attempt + 2
    /\ pc' = "makeRequest"
    /\ UNCHANGED response

\* makeRequest calls itself with attempt+1
Recurse ==
    /\ attempt' = attempt + 1
    /\ pc' = "makeRequest"
    /\ UNCHANGED response

\* lines 111-151: one activation of makeRequest from its entry to its early
\* return or to the point where it blocks in client.Do, holding a request
\* and a response of the pool.  The outcome of this client.Do is
\* upstream[calls + 1]; the outcome the following call would have is drawn
\* from the world.
MakeRequest ==
    /\ pc = "makeRequest"
    /\ calls < MaxCalls
    /\ UNCHANGED <<inputVars, logVars, ctxStatus, ctxHeaders, ctxBody,
                   sleeps, logs>>
    /\ IF Exhausted(attempt)
       THEN /\ Return(TimeoutResponse)
            /\ pool' = RunDeferred(AcquireResponse(pool), calls)
            /\ UNCHANGED <<upstream, calls, sent>>
       ELSE LET parts == SplitN2(Tail(reqUri)) IN
            IF Len(parts) < 2
            THEN /\ Return(FormatResponse)
                 /\ pool' = RunDeferred(AcquireResponse(pool), calls)
                 /\ UNCHANGED <<upstream, calls, sent>>
            ELSE LET req == BuildRequest(parts[1], parts[2]) IN
                 /\ calls' = calls + 1
                 /\ sent' = Append(sent, [attempt |-> attempt, req |-> req])
                 /\ \E nxt \in Outcomes(world) :
                       upstream' = Append(upstream, nxt)
                 /\ pool' = AcquireResponse(AcquireRequest(pool))
                 /\ pc' = "clientDo"
                 /\ UNCHANGED <<attempt, response>>

\* lines 151-172: client.Do returns; the activation goes on to its return
\* or to the point where it blocks in time.Sleep
ClientDo ==
    /\ pc = "clientDo"
    /\ UNCHANGED <<inputVars, logVars, ctxStatus, ctxHeaders, ctxBody,
                   upstream, calls, sent>>
    /\ LET out  == upstream[calls]
           sc   == out.resp.status
           wait == RetryAfterSleeps(out.resp)
       IN  IF out.err
           THEN /\ logs' = Append(logs, [at |-> "retry_err",
                                        attempt |-> attempt, status |-> 0])
                /\ pool' = ReleaseResponse(pool)
                /\ sleeps' = Append(sleeps, Backoff(attempt))
                /\ pc' = "sleep"
                /\ UNCHANGED <<attempt, response>>
           ELSE IF IsRateLimited(sc)
           THEN IF wait # <<>>
                THEN /\ sleeps' = sleeps \o wait
                     /\ pc' = "sleep"
                     /\ UNCHANGED <<logs, pool, attempt, response>>
                ELSE /\ pool' = RunDeferred(pool, calls)
                     /\ Return(out.resp)
                     /\ UNCHANGED <<logs, sleeps>>
           ELSE IF IsServerError(sc)
           THEN /\ logs' = Append(logs, [at |-> "retry_5xx",
                                        attempt |-> attempt, status |-> sc])
                /\ sleeps' = Append(sleeps, Backoff(attempt))
                /\ pc' = "sleep"
                /\ UNCHANGED <<pool, attempt, response>>
           ELSE /\ pool' = RunDeferred(pool, calls)
                /\ Return(out.resp)
                /\ UNCHANGED <<logs, sleeps>>

\* lines 154-155, 162-166 and 169-171: time.Sleep returns; the activation
\* calls makeRequest again after a failure (resp.Reset() does not give the
\* response back to the pool) or returns the 429 response
Sleep ==
    /\ pc = "sleep"
    /\ UNCHANGED <<inputVars, logVars, ctxStatus, ctxHeaders, ctxBody,
                   upstream, calls, sent, sleeps, logs>>
    /\ LET out == upstream[calls] IN
       IF out.err \/ IsServerError(out.resp.status)
       THEN /\ Recurse
            /\ UNCHANGED pool
       ELSE /\ pool' = RunDeferred(pool, calls)
            /\ Return(out.resp)

\* response.Header.VisitAll(... ctx.Response.Header.Set(key, value) ...)
RECURSIVE SetAll(_, _)
SetAll(h, from) ==
    IF from = <<>> THEN h
    ELSE SetAll(SetHeader(h, Head(from)[1], Head(from)[2]), Tail(from))

\* lines 100-108
Relay ==
    /\ pc = "relay"
    /\ ctxStatus' = response.status
    /\ ctxHeaders' =
          SetHeader(SetHeader(SetAll(ctxHeaders, response.headers),
                              kUpstreamStatus, Itoa(response.status)),
                    kVia,
                    <<"r","o","p","r","o","x","y","-","l","i","t","e">>)
    /\ ctxBody' = response.body
    /\ pool' = ReleaseResponse(pool)
    /\ pc' = "done"
    /\ UNCHANGED <<inputVars, logVars, upstream, attempt, calls, sent,
                   sleeps, logs, response>>

----------------------------------------------------------------------------
(* main: the wrapper h around requestHandler, and the access log. *)

RECURSIVE SumSeq(_)
SumSeq(q) == IF q = <<>> THEN 0 ELSE Head(q) + SumSeq(Tail(q))

\* milliseconds a request spends outside time.Sleep
IoMs == {0, 250, 300}

\* an access-log test that skips fast successes only when LOG_ERRORS_ONLY
SkipLogFlagOnly(status, dur) ==
    logErrorsOnly /\ status < 400 /\ dur < logSlowMs

\* lines 38-43: the two early returns of h
SkipLog(status, dur) ==
    \/ logErrorsOnly /\ status < 400 /\ dur < logSlowMs
    \/ dur < logSlowMs /\ status < 400

\* lines 32-52: what h does after requestHandler has returned.  The time
\* measured is at least the time slept.
AccessLog ==
    /\ pc = "done"
    /\ \E io \in IoMs :
          LET status == ctxStatus
              dur    == SumSeq(sleeps) + io
          IN  /\ durMs' = dur
              /\ accessLog' =
                    IF SkipLog(status, dur)
                    THEN accessLog
                    ELSE Append(accessLog,
                                [at |-> "request_end", method |-> reqMethod,
                                 uri |-> reqUri, status |-> status,
                                 duration |-> dur])
    /\ pc' = "logged"
    /\ UNCHANGED <<inputVars, upstream, attempt, calls, sent, sleeps, logs,
                   response, ctxStatus, ctxHeaders, ctxBody, pool>>

Next ==
    \/ AuthReject
    \/ FormatReject
    \/ CallMakeRequest
    \/ MakeRequest
    \/ ClientDo
    \/ Sleep
    \/ Relay
    \/ AccessLog

----------------------------------------------------------------------------
(* Two requests served at once: fasthttp runs h in one goroutine per       *)
(* request.  The goroutine not running is parked with everything that is   *)
(* local to it: its ctx, the arguments and locals of its calls.            *)

NoRequest == [pc |-> "none"]

\* the state of the goroutine running now
Running ==
    [reqMethod |-> reqMethod, reqUri |-> reqUri, reqHeaders |-> reqHeaders,
     reqBody |-> reqBody, world |-> world, upstream |-> upstream, pc |-> pc,
     attempt |-> attempt, calls |-> calls, sent |-> sent, sleeps |-> sleeps,
     logs |-> logs, response |-> response, ctxStatus |-> ctxStatus,
     ctxHeaders |-> ctxHeaders, ctxBody |-> ctxBody, durMs |-> durMs,
     accessLog |-> accessLog]

\* a scheduler under which the attempt counter is one global
ResumeSharedAttempt(g) ==
    /\ reqMethod' = g.reqMethod
    /\ reqUri' = g.reqUri
    /\ reqHeaders' = g.reqHeaders
    /\ reqBody' = g.reqBody
    /\ world' = g.world
    /\ upstream' = g.upstream
    /\ pc' = g.pc
    /\ attempt' = attempt
    /\ calls' = g.calls
    /\ sent' = g.sent
    /\ sleeps' = g.sleeps
    /\ logs' = g.logs
    /\ response' = g.response
    /\ ctxStatus' = g.ctxStatus
    /\ ctxHeaders' = g.ctxHeaders
    /\ ctxBody' = g.ctxBody
    /\ durMs' = g.durMs
    /\ accessLog' = g.accessLog

\* goroutine g runs on: its locals are what it left
Resume(g) ==
    /\ reqMethod' = g.reqMethod
    /\ reqUri' = g.reqUri
    /\ reqHeaders' = g.reqHeaders
    /\ reqBody' = g.reqBody
    /\ world' = g.world
    /\ upstream' = g.upstream
    /\ pc' = g.pc
    /\ attempt' = g.attempt
    /\ calls' = g.calls
    /\ sent' = g.sent
    /\ sleeps' = g.sleeps
    /\ logs' = g.logs
    /\ response' = g.response
    /\ ctxStatus' = g.ctxStatus
    /\ ctxHeaders' = g.ctxHeaders
    /\ ctxBody' = g.ctxBody
    /\ durMs' = g.durMs
    /\ accessLog' = g.accessLog

\* the scheduler switches between the two goroutines, at any point
Switch ==
    /\ parked # NoRequest
    /\ parked' = Running
    /\ Resume(parked)
    /\ UNCHANGED <<configVars, pool>>

NextPair == Next \/ Switch

----------------------------------------------------------------------------
(* Inputs: configurations, inbound requests and upstream behaviours. *)

SeqsUpTo(S, n) == UNION {[1..k -> S] : k \in 0..n}

\* RETRIES may be any integer, zero and negative values included
RetriesValues == (0 - 1)..MaxRetries

\* KEY absent, KEY present but empty, KEY present
KeyConfigs == {<<FALSE, "">>, <<TRUE, "">>, <<TRUE, "v1">>}

UriChars == {"/", "e", "?"}

\* request URIs: a leading slash, then up to MaxUriLen - 1 characters
URIs == {<<"/">> \o s : s \in SeqsUpTo(UriChars, MaxUriLen - 1)}

\* /example.com/foo/bar?x=1
ExampleUri ==
    <<"/","e","x","a","m","p","l","e",".","c","o","m","/","f","o","o","/",
      "b","a","r","?","x","=","1">>

GoodUri == <<"/","e","/","e">>

BadUri == <<"/","e">>

\* header names as a client may send them
wHOST == <<"H","O","S","T">>

wte == <<"t","e">>

wUserAgent == <<"u","s","e","r","-","a","g","e","n","t">>

wXa == <<"x","-","a">>

wROBLOXID == <<"R","O","B","L","O","X","-","I","D">>

WireNames == {wHOST, wte, wUserAgent, wXa, wROBLOXID, kPROXYKEY}

HeaderValues == {"v1", "v2"}

\* inbound header sets, as the server hands them to the handler
HeaderSets ==
    {ParseHeaders(w) : w \in SeqsUpTo(WireNames \X HeaderValues, MaxHeaders)}

\* the inbound requests of the runs that vary something else
FewHeaderSets ==
    {<<>>, ParseHeaders(<<<<kPROXYKEY, "v1">>>>),
     ParseHeaders(<<<<kPROXYKEY, "v2">>, <<wXa, "v1">>>>)}

DefaultLogSlowMs == 300

LogSlowValues == {0, DefaultLogSlowMs}

\* a request that has just arrived, with upstream w in front of it
NewRequest(m, u, h, b, w, first) ==
    [reqMethod |-> m, reqUri |-> u, reqHeaders |-> h, reqBody |-> b,
     world |-> w, upstream |-> <<first>>, pc |-> "handler", attempt |-> 0,
     calls |-> 0, sent |-> <<>>, sleeps |-> <<>>, logs |-> <<>>,
     response |-> NoResponse, ctxStatus |-> 0, ctxHeaders |-> <<>>,
     ctxBody |-> "", durMs |-> 0, accessLog |-> <<>>]

InitAll(R, K, U, H, W, L, E, P) ==
    /\ retries \in R
    /\ logSlowMs \in L
    /\ logErrorsOnly \in E
    /\ parked \in P
    /\ durMs = 0
    /\ accessLog = <<>>
    /\ \E k \in K : keyOk = k[1] /\ keyVal = k[2]
    /\ reqMethod = "POST"
    /\ reqUri \in U
    /\ reqHeaders \in H
    /\ reqBody = "payload"
    /\ world = W
    /\ \E first \in Outcomes(W) : upstream = <<first>>
    /\ pc = "handler"
    /\ attempt = 0
    /\ calls = 0
    /\ sent = <<>>
    /\ sleeps = <<>>
    /\ logs = <<>>
    /\ response = NoResponse
    /\ ctxStatus = 0
    /\ ctxHeaders = <<>>
    /\ ctxBody = ""
    /\ pool = [reqAcquired |-> 0, reqReleased |-> 0,
               respAcquired |-> 0, respReleased |-> 0]

\* one request, with the default log configuration
InitWith(R, K, U, H, W) ==
    InitAll(R, K, U, H, W, {DefaultLogSlowMs}, {FALSE}, {NoRequest})

\* every retry configuration against every upstream behaviour
Init ==
    InitWith(RetriesValues, {<<FALSE, "">>, <<TRUE, "v1">>},
             {GoodUri, BadUri}, FewHeaderSets, "full")

Spec == Init /\ [][Next]_vars

\* every retry configuration against each kind of upstream outcome
InitLive ==
    InitWith(RetriesValues, {<<FALSE, "">>, <<TRUE, "v1">>},
             {GoodUri, BadUri}, FewHeaderSets, "small")

\* every upstream call and every sleep completes, and the goroutine of the
\* request keeps running
SpecLive == InitLive /\ [][Next]_vars /\ WF_vars(Next)

\* every key configuration and every request URI
InitGate ==
    InitWith({0, MaxRetries}, KeyConfigs, URIs \cup {ExampleUri},
             FewHeaderSets, "small")

SpecGate == InitGate /\ [][Next]_vars

\* every inbound header set
InitHeaders ==
    InitWith({2}, {<<FALSE, "">>, <<TRUE, "v1">>}, {GoodUri, BadUri},
             HeaderSets, "small")

SpecHeaders == InitHeaders /\ [][Next]_vars

\* every shape of upstream response headers
InitRelay ==
    InitWith({2}, {<<FALSE, "">>, <<TRUE, "v1">>}, {GoodUri, BadUri},
             FewHeaderSets, "relay")

SpecRelay == InitRelay /\ [][Next]_vars

\* every log configuration
InitLog ==
    InitAll({2}, {<<FALSE, "">>, <<TRUE, "v1">>}, {GoodUri, BadUri},
            FewHeaderSets, "full", LogSlowValues, BOOLEAN, {NoRequest})

SpecLog == InitLog /\ [][Next]_vars

\* a second request, with or without the key, in front of its own upstream
OtherRequests ==
    {NewRequest("GET", GoodUri, h, "other", "small", first) :
        h \in {<<>>, ParseHeaders(<<<<kPROXYKEY, "v1">>>>)},
        first \in Outcomes("small")}

\* two requests in one process
InitPair ==
    InitAll({2}, {<<TRUE, "v1">>}, {GoodUri, BadUri},
            {ParseHeaders(<<<<kPROXYKEY, "v1">>>>)}, "small",
            {DefaultLogSlowMs}, {FALSE}, OtherRequests)

SpecPair == InitPair /\ [][NextPair]_vars

----------------------------------------------------------------------------
(* Properties of the retry controller. *)

\* requestHandler has called makeRequest
Entered == attempt >= 1

Finished == pc \in {"done", "logged"}

Returned == pc \in {"relay", "done", "logged"}

\* the backoff sleeps of k failed attempts, 100 ms times the attempt number
LinearBackoffs(k) == [i \in 1..k |-> 100 * i]

\* every client.Do made so far returned a response with a 5xx status
AllCallsServerError ==
    /\ calls >= 1
    /\ \A i \in 1..calls :
          ~upstream[i].err /\ upstream[i].resp.status \in 500..599

\* C1, as stated: when every attempt returns a 5xx status and RETRIES >= 1,
\* the final response is the last upstream response itself, not a synthetic
\* one, after exactly RETRIES upstream calls.
C1_LastServerErrorReturned ==
    (Finished /\ retries >= 1 /\ AllCallsServerError)
        => /\ calls = retries
           /\ response = upstream[calls].resp
           /\ ctxStatus = upstream[calls].resp.status

\* the first n outcomes are transport errors and outcome n + 1 is a success
FailThenSuccess(n) ==
    /\ n + 1 <= Len(upstream)
    /\ \A i \in 1..n : upstream[i].err
    /\ ~upstream[n + 1].err
    /\ upstream[n + 1].resp.status \in 200..399

\* C2, as stated: for every N with 0 <= N <= RETRIES, N transport failures
\* followed by an attempt that would succeed end in that success.
C2_RecoveryUpToMaxAttempts ==
    \A n \in 0..Len(upstream) :
        (Finished /\ Entered /\ retries >= 1 /\ n <= retries
                  /\ FailThenSuccess(n))
            => /\ response = upstream[n + 1].resp
               /\ ctxStatus = upstream[n + 1].resp.status

\* C2, amended: for every N with 0 <= N < RETRIES, N transport failures
\* followed by a success end in that success, after N + 1 upstream calls.
C2_RecoveryBelowMaxAttempts ==
    \A n \in 0..Len(upstream) :
        (Finished /\ Entered /\ n < retries /\ FailThenSuccess(n))
            => /\ calls = n + 1
               /\ response = upstream[n + 1].resp
               /\ ctxStatus = upstream[n + 1].resp.status
               /\ ctxBody = upstream[n + 1].resp.body

C2_Witness ==
    /\ Finished
    /\ retries >= 3
    /\ FailThenSuccess(2)
    /\ calls = 3
    /\ ctxStatus = 200

\* every outcome of the upstream, the one not yet consumed included, is a
\* transport error
AllTransportErrors == \A i \in 1..Len(upstream) : upstream[i].err

\* C3: when every upstream attempt fails at transport level, the final
\* response is exactly 504 "upstream timeout" and exactly RETRIES upstream
\* calls were made (none when RETRIES is not positive).
C3_TransportExhaustion ==
    (Entered /\ AllTransportErrors)
        => /\ calls <= (IF retries > 0 THEN retries ELSE 0)
           /\ Finished =>
                /\ calls = (IF retries > 0 THEN retries ELSE 0)
                /\ response = Resp(504, <<>>, "upstream timeout")
                /\ ctxStatus = 504
                /\ ctxBody = "upstream timeout"

C3_Witness ==
    /\ Finished
    /\ AllTransportErrors
    /\ retries >= 2
    /\ calls = retries
    /\ ctxStatus = 504
    /\ ctxBody = "upstream timeout"

\* the k-th client.Do has returned
CallReturned(k) == k < calls \/ (k = calls /\ pc # "clientDo")

\* the wait the claim gives for a 429 response, in milliseconds and in
\* decimal writing: Retry-After seconds plus 100 ms when Retry-After is a
\* positive integer, none otherwise
ClaimedWait(r) ==
    LET present == \E i \in 1..Len(r.headers) : r.headers[i][1] = kRetryAfter
        ra   == IF present
                THEN r.headers[CHOOSE i \in 1..Len(r.headers) :
                                   r.headers[i][1] = kRetryAfter][2]
                ELSE <<>>
        digs == IF Len(ra) > 0 /\ ra[1] = "+" THEN Tail(ra) ELSE ra
        isInt == Len(digs) > 0 /\ \A i \in 1..Len(digs) : IsDigit(digs[i])
    IN  IF isInt /\ DecNorm(digs) # <<"0">>
        THEN <<DecAdd(DecNorm(digs) \o <<"0","0","0">>, <<"1","0","0">>)>>
        ELSE <<>>

\* C4: a 429 response, at any attempt number, is the last upstream call of
\* the request; it is returned unchanged after at most one wait, of
\* Retry-After seconds plus 100 ms when Retry-After is a positive integer.
C4_RateLimitedIsFinal ==
    \A i \in 1..calls :
        (CallReturned(i) /\ ~upstream[i].err /\ upstream[i].resp.status = 429)
            => /\ i = calls
               /\ pc \in {"sleep", "relay", "done", "logged"}
               /\ [j \in 1..Len(sleeps) |-> Itoa(sleeps[j])]
                     = [j \in 1..(i - 1) |-> Itoa(100 * j)]
                          \o ClaimedWait(upstream[i].resp)
               /\ Returned => response = upstream[i].resp
               /\ Finished => /\ ctxStatus = 429
                              /\ ctxBody = upstream[i].resp.body

\* C5: a response with a status below 400, or a 4xx status other than 429,
\* is returned at once, at any attempt number: it is the last upstream call,
\* no sleep and no retry log event follow it.
C5_NonRetryablePassThrough ==
    \A i \in 1..calls :
        (/\ CallReturned(i)
         /\ ~upstream[i].err
         /\ \/ upstream[i].resp.status < 400
            \/ /\ upstream[i].resp.status \in 400..499
               /\ upstream[i].resp.status # 429)
            => /\ i = calls
               /\ Returned
               /\ response = upstream[i].resp
               /\ sleeps = LinearBackoffs(i - 1)
               /\ Len(logs) = i - 1
               /\ \A j \in 1..Len(logs) : logs[j].attempt = j

C5_Witness ==
    /\ Finished
    /\ calls >= 2
    /\ ~upstream[calls].err
    /\ upstream[calls].resp.status = 404
    /\ Len(sleeps) = calls - 1
    /\ ctxStatus = 404

----------------------------------------------------------------------------
(* Properties of the request handler's gates. *)

HasProxyKey ==
    \E i \in 1..Len(reqHeaders) :
        reqHeaders[i][1] = <<"P","r","o","x","y","k","e","y">>

ProxyKeyValue ==
    reqHeaders[CHOOSE i \in 1..Len(reqHeaders) :
                   /\ reqHeaders[i][1] = <<"P","r","o","x","y","k","e","y">>
                   /\ \A j \in 1..(i-1) :
                          reqHeaders[j][1] # <<"P","r","o","x","y","k","e","y">>][2]

\* C6, as stated: with KEY configured, a request whose PROXYKEY header is
\* absent or differs from it is answered 407 "Missing or invalid PROXYKEY
\* header." without an upstream call; without KEY no request is answered 407.
C6_AuthGate ==
    Finished =>
        /\ (keyOk /\ (~HasProxyKey \/ ProxyKeyValue # keyVal))
              => /\ ctxStatus = 407
                 /\ ctxBody = "Missing or invalid PROXYKEY header."
                 /\ calls = 0
        /\ ~keyOk => ctxStatus # 407

\* the request passes the authentication step
Authenticated == ~keyOk \/ (IF HasProxyKey THEN ProxyKeyValue ELSE "") = keyVal

\* the URI has no "/" after its first character
NoSecondSegment == \A i \in 2..Len(reqUri) : reqUri[i] # "/"

\* C7: an authenticated request whose URI has no second segment is answered
\* 400 "URL format invalid."; makeRequest is never called and no upstream
\* call is made.
C7_FormatGate ==
    (Authenticated /\ NoSecondSegment)
        => /\ pc \in {"handler", "done", "logged"}
           /\ attempt = 0
           /\ calls = 0
           /\ sent = <<>>
           /\ Finished => /\ ctxStatus = 400
                          /\ ctxBody = "URL format invalid."

C7_Witness ==
    /\ Finished
    /\ keyOk
    /\ Authenticated
    /\ NoSecondSegment
    /\ Len(reqUri) >= 3
    /\ ctxStatus = 400
    /\ ctxBody = "URL format invalid."

\* the part of the URI before its second "/" (the host) is empty, or the
\* part after it (the path) is
EmptyHostOrPath ==
    /\ ~NoSecondSegment
    /\ \/ reqUri[2] = "/"
       \/ \A i \in 2..(Len(reqUri) - 1) : reqUri[i] # "/"

\* C8, as stated: every upstream call dispatched has a non-empty host and a
\* non-empty path, and a URI that splits into an empty host or an empty path
\* is answered 400 without an upstream call.
C8_TargetNonEmpty ==
    /\ \A i \in 1..Len(sent) :
          /\ sent[i].req.host # <<>>
          /\ Len(sent[i].req.uri) > Len(sent[i].req.host) + 9
    /\ (Authenticated /\ EmptyHostOrPath)
          => /\ calls = 0
             /\ Finished => ctxStatus = 400

----------------------------------------------------------------------------
(* Properties of the outbound request's headers. *)

\* C9, as stated: in every upstream request, no inbound header whose name is
\* in the drop list (whatever its case) is present, and every other inbound
\* header is present with its name and value unchanged.
C9_HeaderFilter ==
    \A i \in 1..Len(sent) :
        LET out == sent[i].req.headers IN
        \A j \in 1..Len(reqHeaders) :
            IF ToLower(reqHeaders[j][1]) \in DropList
            THEN \A m \in 1..Len(out) :
                     ToLower(out[m][1]) # ToLower(reqHeaders[j][1])
            ELSE \E m \in 1..Len(out) : out[m] = reqHeaders[j]

\* C10, as stated: in every upstream request the User-Agent header is
\* "RoProxy", whatever the inbound request carries.
C10_UserAgentFixed ==
    \A i \in 1..Len(sent) :
        /\ \E m \in 1..Len(sent[i].req.headers) :
              sent[i].req.headers[m][1] = kUserAgent
        /\ \A m \in 1..Len(sent[i].req.headers) :
              sent[i].req.headers[m][1] = kUserAgent
                  => sent[i].req.headers[m][2] = "RoProxy"

\* C11, as stated: no upstream request carries a Roblox-Id header, whatever
\* the inbound request carries and in whatever letter case.
C11_NoRobloxId ==
    \A i \in 1..Len(sent) :
        \A m \in 1..Len(sent[i].req.headers) :
            ToLower(sent[i].req.headers[m][1]) # ToLower(kRobloxId)

----------------------------------------------------------------------------
(* Properties of the relayed response. *)

Count(seq, e) == Cardinality({i \in 1..Len(seq) : seq[i] = e})

Entries(seq) == {seq[i] : i \in 1..Len(seq)}

\* the headers the claim expects on the outbound response: the upstream's,
\* then X-Proxy-Upstream-Status with the decimal status, then Via
ClaimedRelayHeaders ==
    response.headers
        \o <<<<kUpstreamStatus, Itoa(response.status)>>,
             <<kVia, <<"r","o","p","r","o","x","y","-","l","i","t","e">>>>>>

\* C12, as stated: the outbound response has the status and the body of the
\* final response, and as headers exactly the final response's headers plus
\* X-Proxy-Upstream-Status and Via: none dropped, renamed, changed or added,
\* also when a name has several values or is one of the two added names.
C12_RelayFidelity ==
    (Finished /\ Entered)
        => /\ ctxStatus = response.status
           /\ ctxBody = response.body
           /\ \A e \in Entries(ctxHeaders) \cup Entries(ClaimedRelayHeaders) :
                 Count(ctxHeaders, e) = Count(ClaimedRelayHeaders, e)

----------------------------------------------------------------------------
(* Properties of the pooled objects. *)

\* C13, as stated: nothing is released that was not acquired, and when the
\* handler returns every pooled request and response acquired during the
\* cycle has been released: acquires and releases are equal in number.
C13_PoolBalance ==
    /\ pool.reqReleased <= pool.reqAcquired
    /\ pool.respReleased <= pool.respAcquired
    /\ Finished => /\ pool.reqReleased = pool.reqAcquired
                   /\ pool.respReleased = pool.respAcquired

----------------------------------------------------------------------------
(* Properties of the URL translation. *)

\* C14: for a request URI "/" + host + "/" + rest, with no "/" in host,
\* every upstream call of the request, retries included, goes to host and
\* targets exactly "https://" + host + "/" + rest, with the inbound method
\* and body; /example.com/foo/bar?x=1 maps to https://example.com/foo/bar?x=1.
C14_UrlTranslation ==
    \A i \in 1..Len(sent) :
        LET host == sent[i].req.host IN
        /\ \A j \in 1..Len(host) : host[j] # "/"
        /\ Len(reqUri) >= Len(host) + 2
        /\ SubSeq(reqUri, 1, Len(host) + 2) = <<"/">> \o host \o <<"/">>
        /\ sent[i].req.uri
              = <<"h","t","t","p","s",":","/","/">> \o host \o <<"/">>
                   \o SubSeq(reqUri, Len(host) + 3, Len(reqUri))
        /\ sent[i].req.method = reqMethod
        /\ sent[i].req.body = reqBody

C14_Witness ==
    /\ Len(sent) >= 2
    /\ reqUri = ExampleUri
    /\ sent[2].req.host = <<"e","x","a","m","p","l","e",".","c","o","m">>
    /\ sent[2].req.uri =
          <<"h","t","t","p","s",":","/","/","e","x","a","m","p","l","e",".",
            "c","o","m","/","f","o","o","/","b","a","r","?","x","=","1">>
    /\ sent[2].req.method = "POST"

----------------------------------------------------------------------------
(* Properties of the backoff and of the attempt counter. *)

\* client.Do number i failed: a transport error or a 5xx status
FailedCall(i) ==
    \/ upstream[i].err
    \/ upstream[i].resp.status \in 500..599

\* C15: the sleep after failed attempt k is exactly 100 * k ms, whether the
\* failure was a transport error or a 5xx status, and nothing else sleeps
\* except a final 429; the sleep follows the last allowed attempt too, so a
\* request whose RETRIES attempts all fail has slept
\* 100 * RETRIES * (RETRIES + 1) / 2 ms when its response is produced.
C15_LinearBackoff ==
    /\ \A i \in 1..calls :
          (CallReturned(i) /\ FailedCall(i))
              => (i <= Len(sleeps) /\ sleeps[i] = 100 * i)
    /\ \A i \in 1..Len(sleeps) :
          \/ i <= calls /\ FailedCall(i)
          \/ i >= calls /\ calls >= 1 /\ ~upstream[calls].err
                /\ upstream[calls].resp.status = 429
    /\ (Returned /\ retries >= 1 /\ calls = retries
            /\ \A i \in 1..calls : FailedCall(i))
          => /\ Len(sleeps) = retries
             /\ SumSeq(sleeps) = (100 * retries * (retries + 1)) \div 2
             /\ response.status = 504

C15_Witness ==
    /\ Finished
    /\ retries = 3
    /\ calls = 3
    /\ upstream[1].err
    /\ ~upstream[2].err /\ upstream[2].resp.status \in 500..599
    /\ FailedCall(3)
    /\ sleeps = <<100, 200, 300>>
    /\ SumSeq(sleeps) = 600


\* the number of failed attempts so far whose backoff is over
FailedCalls ==
    Cardinality({i \in 1..calls :
                    /\ FailedCall(i)
                    /\ i < calls \/ pc \notin {"clientDo", "sleep"}})

\* C16: whatever the upstream outcomes, the attempt counter is 1 on entry
\* and is always 1 plus the number of failed attempts so far (one counter
\* for transport errors and 5xx alike, never decreasing); the upstream
\* calls carry the attempt numbers 1, 2, ..., k in order, none skipped or
\* repeated, and k never exceeds RETRIES.
C16_BoundedAttempts ==
    /\ Len(sent) = calls
    /\ \A i \in 1..Len(sent) : sent[i].attempt = i
    /\ calls <= (IF retries > 0 THEN retries ELSE 0)
    /\ Entered => attempt = 1 + FailedCalls
    /\ Entered => attempt \in {calls, calls + 1}
    /\ ~Entered => (attempt = 0 /\ calls = 0)

C16_Witness ==
    /\ Finished
    /\ retries = 3
    /\ calls = 3
    /\ upstream[1].err
    /\ ~upstream[2].err /\ upstream[2].resp.status \in 500..599
    /\ ~upstream[3].err /\ upstream[3].resp.status = 429
    /\ attempt = 3
    /\ sent[1].attempt = 1 /\ sent[2].attempt = 2 /\ sent[3].attempt = 3


\* C19: RETRIES is the total number of attempts.  With RETRIES = r >= 1 a
\* request makes at most r upstream calls, never r + 1; with RETRIES <= 0
\* an authenticated, well-formed request is answered with the synthetic 504
\* "upstream timeout" and no upstream call is made.
C19_RetriesCountsAttempts ==
    /\ retries >= 1 => calls <= retries
    /\ (retries <= 0 /\ Authenticated /\ ~NoSecondSegment)
          => /\ calls = 0
             /\ sent = <<>>
             /\ sleeps = <<>>
             /\ Returned => response = Resp(504, <<>>, "upstream timeout")
             /\ Finished => (ctxStatus = 504 /\ ctxBody = "upstream timeout")

C19_Witness ==
    /\ Finished
    /\ retries <= 0
    /\ Authenticated
    /\ ~NoSecondSegment
    /\ attempt = 1
    /\ calls = 0
    /\ ctxStatus = 504

----------------------------------------------------------------------------
(* Properties of the access log. *)

\* C20: for both values of LOG_ERRORS_ONLY, a completed request has one
\* request_end entry if its final status is >= 400 or its duration is
\* >= LOG_SLOW_MS, and none otherwise: a fast response with a status below
\* 400 is not logged even when LOG_ERRORS_ONLY is false.
C20_AccessLogIgnoresFlag ==
    /\ pc # "logged" => accessLog = <<>>
    /\ pc = "logged" =>
          IF ctxStatus >= 400 \/ durMs >= logSlowMs
          THEN /\ Len(accessLog) = 1
               /\ accessLog[1].at = "request_end"
               /\ accessLog[1].status = ctxStatus
               /\ accessLog[1].duration = durMs
          ELSE accessLog = <<>>

C20_Witness ==
    /\ pc = "logged"
    /\ ~logErrorsOnly
    /\ logSlowMs = 300
    /\ ctxStatus = 200
    /\ calls = 2
    /\ durMs = 100
    /\ accessLog = <<>>

----------------------------------------------------------------------------
(* Termination. *)

\* the one response of a finished request: a rejection, an upstream
\* response accepted as final, or the synthetic exhaustion response
FinalResponse ==
    \/ /\ ctxStatus = 407
       /\ ctxBody = "Missing or invalid PROXYKEY header."
       /\ response = NoResponse
    \/ /\ ctxStatus = 400
       /\ ctxBody = "URL format invalid."
       /\ response = NoResponse
    \/ /\ calls >= 1
       /\ ~FailedCall(calls)
       /\ response = upstream[calls].resp
       /\ ctxStatus = response.status
       /\ ctxBody = response.body
    \/ /\ \A i \in 1..calls : FailedCall(i)
       /\ response = Resp(504, <<>>, "upstream timeout")
       /\ ctxStatus = 504
       /\ ctxBody = "upstream timeout"

\* C17: when every upstream call and every sleep completes, every request,
\* whatever the upstream outcomes, ends in a terminal state with its one
\* final response (407, 400, an accepted upstream response or the synthetic
\* exhaustion response), and stays there: the retry loop does not run on.
C17_Termination == <>[](pc = "logged" /\ FinalResponse)

C17_Witness ==
    /\ pc = "logged"
    /\ retries = 3
    /\ calls = 3
    /\ \A i \in 1..calls : FailedCall(i)
    /\ FinalResponse
    /\ ctxStatus = 504

----------------------------------------------------------------------------
(* Isolation of concurrent requests. *)

\* call i of request g failed
FailedOf(g, i) ==
    \/ g.upstream[i].err
    \/ g.upstream[i].resp.status \in 500..599

\* the first call of request g, among the RETRIES allowed, that did not
\* fail; 0 when there is none among the outcomes known
FirstAccepted(g) ==
    LET ok == {i \in 1..Len(g.upstream) : i <= retries /\ ~FailedOf(g, i)}
    IN  IF ok = {} THEN 0 ELSE CHOOSE i \in ok : \A j \in ok : i <= j

\* what request g must have done so far, and must have answered once it is
\* finished, going by its own input and its own upstream outcomes alone
OwnCourse(g) ==
    LET rejected407 == keyOk /\ Peek(g.reqHeaders, kPROXYKEY, "") # keyVal
        rejected400 == \A i \in 2..Len(g.reqUri) : g.reqUri[i] # "/"
        failed == {i \in 1..g.calls : FailedOf(g, i)}
        done == g.pc \in {"done", "logged"}
    IN  /\ Len(g.sent) = g.calls
        /\ \A i \in 1..g.calls :
              /\ g.sent[i].attempt = i
              /\ g.sent[i].req.method = g.reqMethod
              /\ g.sent[i].req.body = g.reqBody
              /\ g.sent[i].req.uri
                    = <<"h","t","t","p","s",":","/","/">> \o Tail(g.reqUri)
        /\ \A i \in failed :
              (i < g.calls \/ g.pc # "clientDo") => g.sleeps[i] = 100 * i
        /\ g.pc = "handler" => (g.attempt = 0 /\ g.calls = 0)
        /\ g.pc = "makeRequest" =>
              (g.attempt = g.calls + 1 /\ failed = 1..g.calls)
        /\ g.pc \in {"clientDo", "sleep"} =>
              (g.attempt = g.calls /\ 1..(g.calls - 1) \subseteq failed)
        /\ (done /\ rejected407) =>
              (g.ctxStatus = 407 /\ g.calls = 0 /\ g.attempt = 0)
        /\ (done /\ ~rejected407 /\ rejected400) =>
              (g.ctxStatus = 400 /\ g.calls = 0 /\ g.attempt = 0)
        /\ (done /\ ~rejected407 /\ ~rejected400 /\ FirstAccepted(g) > 0) =>
              /\ g.calls = FirstAccepted(g)
              /\ g.attempt = g.calls
              /\ g.ctxStatus = g.upstream[g.calls].resp.status
              /\ g.ctxBody = g.upstream[g.calls].resp.body
        /\ (done /\ ~rejected407 /\ ~rejected400 /\ FirstAccepted(g) = 0) =>
              /\ g.calls = retries
              /\ g.attempt = retries + 1
              /\ g.ctxStatus = 504
              /\ g.ctxBody = "upstream timeout"

\* C18: under every interleaving of two requests, the attempt counter, the
\* upstream calls and the final response of each are those its own input
\* and its own upstream outcomes give, whatever the other one does in
\* between; and no step of request handling writes the configuration they
\* share.
C18_Isolation ==
    /\ [](OwnCourse(Running) /\ OwnCourse(parked))
    /\ [][UNCHANGED configVars]_vars

C18_Witness ==
    /\ pc = "makeRequest"
    /\ attempt = 2
    /\ calls = 1
    /\ parked.pc = "makeRequest"
    /\ parked.attempt = 3
    /\ parked.calls = 2
    /\ parked.upstream[2].resp.status = 503
    /\ upstream[1].err

====
